---- MODULE Spec2Model ----
(***************************************************************************)
(* Activity Intelligence engine of src-tauri/src/intelligence.rs:          *)
(* the SQLite store (contacts, calendar_events, email_observations,        *)
(* suggestions, autonomy_settings), the ingestion cycles, the four         *)
(* suggestion detectors, the suggestion lifecycle and the autonomy         *)
(* settings.  Each public function is one action: it opens its own         *)
(* connection and every statement auto-commits; generate_suggestions and   *)
(* the two ingestion cycles only run from the single observer task.        *)
(***************************************************************************)
EXTENDS Integers, Sequences, FiniteSets, TLC

VARIABLES
    clock,               \* SystemTime::now(), in ticks since the epoch
    contacts,            \* table contacts:            email      -> row
    calendar_events,     \* table calendar_events:     event_id   -> row
    email_observations,  \* table email_observations:  message_id -> row
    suggestions,         \* table suggestions:         id         -> row
    autonomy_settings,   \* table autonomy_settings:   activity_type -> row
    ret,                 \* the last call and what it returned
    capability,          \* the activity_intelligence flag of the configuration
    observer             \* the observer task: "not_started" or "running"

vars == <<clock, contacts, calendar_events, email_observations,
          suggestions, autonomy_settings, ret, capability, observer>>

app == <<capability, observer>>

store == <<contacts, calendar_events, email_observations,
           suggestions, autonomy_settings>>

----------------------------------------------------------------------------
(* Bounds of the model *)

\* ticks per day (a timestamp has a date and a time of day)
TicksPerDay == 2
\* the day of the first state
StartDay == 31
\* number of days the clock may run past StartDay
MaxDays == 50
\* most rows the suggestions table may hold for one contact
MaxSuggestions == 3
\* most interactions a contact may count
MaxInteractions == 3
\* most rows of a suggestions table handed to get_suggestions
MaxListed == 22
\* most interactions the contact of long standing may count
MaxLongInteractions == 7

\* SQL NULL / Rust None: of a text column, and of a numeric or timestamp column
NULL == "NULL"
NONE == -1

----------------------------------------------------------------------------
(* Timestamps.  The store holds timestamps as text and compares them as    *)
(* text.  A text "YYYY-MM-DD" sorts before every "YYYY-MM-DDThh:mm:ssZ" of *)
(* the same day and after every text of an earlier day; the integer key of *)
(* a text below orders the same way.                                       *)

\* key of the text "YYYY-MM-DD" of day d
DateText(d) == d * (TicksPerDay + 1)

\* key of the text "YYYY-MM-DDThh:mm:ssZ" of the instant c
DateTimeText(c) == (c \div TicksPerDay) * (TicksPerDay + 1) + 1 + (c % TicksPerDay)

now_iso == DateTimeText(clock)

SaturatingSub(a, b) == IF a >= b THEN a - b ELSE 0

days_ago(n) == DateText(SaturatingSub(clock, n * TicksPerDay) \div TicksPerDay)

days_ahead(n) == DateText((clock + n * TicksPerDay) \div TicksPerDay)

\* NULL compares as unknown in SQL: a comparison with NULL selects no row
SqlLt(a, b) == a /= NONE /\ b /= NONE /\ a < b
SqlGe(a, b) == a /= NONE /\ b /= NONE /\ a >= b

----------------------------------------------------------------------------
(* Values *)

Self == "me@x.com"
Addresses == {"a@x.com", "b@x.com"}

ActivityTypes == {"scheduling", "email_reply", "follow_up", "outreach"}
SuggestionTypes == {"reachout", "respond", "catch_up", "schedule_meeting"}
valid_levels == <<"observe", "suggest", "draft", "act">>
Levels == {valid_levels[i] : i \in 1..Len(valid_levels)}

SeedLevel(a) == IF a \in {"email_reply", "outreach"} THEN "observe" ELSE "suggest"

\* the contact of long standing, and the cap on each contact's count
LongContact == "c@x.com"
InteractionCap(e) == IF e = LongContact THEN MaxLongInteractions ELSE MaxInteractions

Max(S) == CHOOSE x \in S : \A y \in S : y <= x
Min(S) == CHOOSE x \in S : \A y \in S : x <= y

----------------------------------------------------------------------------
(* Initial state: the schema created and seeded by init_db *)

SeedSettings ==
    [a \in ActivityTypes |->
        [level |-> SeedLevel(a), promoted_at |-> NONE,
         total_accepted |-> 0, total_dismissed |-> 0]]

EmptyTable == [k \in {} |-> NULL]

\* avg_response_time_mins is a fraction num/den; NULL is 0/0
NoAverage == [num |-> 0, den |-> 0]

init_db ==
    /\ contacts = EmptyTable
    /\ calendar_events = EmptyTable
    /\ email_observations = EmptyTable
    /\ suggestions = EmptyTable
    /\ autonomy_settings = SeedSettings

Init ==
    /\ clock = StartDay * TicksPerDay
    /\ init_db
    /\ ret = [op |-> "init_db", val |-> "ok"]
    /\ capability = TRUE
    /\ observer = "running"

\* time passes by k ticks while no function runs
Advance(k) ==
    /\ clock + k <= (StartDay + MaxDays) * TicksPerDay
    /\ clock' = clock + k
    /\ UNCHANGED <<app, store, ret>>

----------------------------------------------------------------------------
(* Contact upsert *)

\* the upsert keeping the channel from a stored count of 5 on
upsert_contact_ThresholdAtFive(table, email, name, channel) ==
    IF email \notin DOMAIN table
    THEN [e \in DOMAIN table \cup {email} |->
            IF e = email
            THEN [name |-> name, last_seen |-> now_iso,
                  interaction_count |-> 1, avg_response_time_mins |-> NoAverage,
                  preferred_channel |-> channel]
            ELSE table[e]]
    ELSE [table EXCEPT ![email] =
            [@ EXCEPT
                !.name = IF name /= NULL THEN name ELSE @,
                !.last_seen = now_iso,
                !.interaction_count = @ + 1,
                !.preferred_channel =
                    IF table[email].interaction_count >= 5 THEN @ ELSE channel]]

\* INSERT ... ON CONFLICT(email) DO UPDATE
upsert_contact(table, email, name, channel) ==
    IF email \notin DOMAIN table
    THEN [e \in DOMAIN table \cup {email} |->
            IF e = email
            THEN [name |-> name, last_seen |-> now_iso,
                  interaction_count |-> 1, avg_response_time_mins |-> NoAverage,
                  preferred_channel |-> channel]
            ELSE table[e]]
    ELSE [table EXCEPT ![email] =
            [@ EXCEPT
                !.name = IF name /= NULL THEN name ELSE @,
                !.last_seen = now_iso,
                !.interaction_count = @ + 1,
                !.preferred_channel =
                    IF table[email].interaction_count > 5 THEN @ ELSE channel]]

RECURSIVE UpsertAll(_, _, _)
UpsertAll(table, emails, channel) ==
    IF emails = <<>> THEN table
    ELSE UpsertAll(upsert_contact(table, Head(emails), NULL, channel),
                   Tail(emails), channel)

----------------------------------------------------------------------------
(* Calendar observation *)

\* an event of the feed: [id, start, attendees, organizer]; attendees is a
\* list of [email, display_name]; absent values are NULL
RECURSIVE UpsertAttendees(_, _)
UpsertAttendees(table, attendees) ==
    IF attendees = <<>> THEN table
    ELSE LET att == Head(attendees)
         IN UpsertAttendees(
                IF att.email /= NULL
                THEN upsert_contact(table, att.email, att.display_name, "calendar")
                ELSE table,
                Tail(attendees))

\* filter_map(|att| att.email): the attendee list stored with the event
RECURSIVE AttendeeEmails(_)
AttendeeEmails(attendees) ==
    IF attendees = <<>> THEN <<>>
    ELSE (IF Head(attendees).email /= NULL THEN <<Head(attendees).email>> ELSE <<>>)
         \o AttendeeEmails(Tail(attendees))

RECURSIVE ProcessEvents(_, _, _, _)
ProcessEvents(events, cal, cts, count) ==
    IF events = <<>> THEN [cal |-> cal, cts |-> cts, count |-> count]
    ELSE LET event == Head(events)
             row == [start_time |-> event.start,
                     attendees |-> AttendeeEmails(event.attendees),
                     organizer_email |-> event.organizer]
             cal2 == [k \in DOMAIN cal \cup {event.id} |->
                        IF k = event.id THEN row ELSE cal[k]]
             cts2 == UpsertAttendees(cts, event.attendees)
             cts3 == IF event.organizer /= NULL
                     THEN upsert_contact(cts2, event.organizer, NULL, "calendar")
                     ELSE cts2
         IN IF event.id = NONE
            THEN ProcessEvents(Tail(events), cal, cts, count)
            ELSE ProcessEvents(Tail(events), cal2, cts3, count + 1)

\* outcome: "fetch_error" (gog fails), "malformed" (neither JSON shape
\* parses) or "ok" with the parsed events
observe_calendar(outcome, events) ==
    /\ IF outcome /= "ok"
       THEN /\ ret' = [op |-> "observe_calendar", val |-> "err"]
            /\ UNCHANGED <<calendar_events, contacts>>
       ELSE LET done == ProcessEvents(events, calendar_events, contacts, 0)
            IN /\ \A e \in DOMAIN done.cts :
                     done.cts[e].interaction_count <= InteractionCap(e)
               /\ calendar_events' = done.cal
               /\ contacts' = done.cts
               /\ ret' = [op |-> "observe_calendar", val |-> done.count]
    /\ UNCHANGED <<app, clock, email_observations, suggestions, autonomy_settings>>

----------------------------------------------------------------------------
(* Reply pattern detection *)

\* the instant (in ticks) a timestamp text denotes, as JULIANDAY reads it
InstantOf(text) ==
    (text \div (TicksPerDay + 1)) * TicksPerDay
      + (IF text % (TicksPerDay + 1) = 0 THEN 0 ELSE (text % (TicksPerDay + 1)) - 1)

MinutesPerDay == 1440

\* (JULIANDAY(later) - JULIANDAY(earlier)) * 1440
MinutesBetween(earlier, later) ==
    ((InstantOf(later) - InstantOf(earlier)) * MinutesPerDay) \div TicksPerDay

\* the outbound rows of the same thread with a later timestamp
LaterOutbound(obs, m) ==
    {k \in DOMAIN obs :
        /\ obs[k].thread_id = obs[m].thread_id
        /\ obs[k].is_inbound = 0
        /\ obs[k].timestamp > obs[m].timestamp}

\* the first UPDATE without its test of is_inbound
MarkReplied_AnyDirection(obs) ==
    [m \in DOMAIN obs |->
        IF obs[m].replied = 0 /\ LaterOutbound(obs, m) /= {}
        THEN [obs[m] EXCEPT !.replied = 1]
        ELSE obs[m]]

MarkReplied(obs) ==
    [m \in DOMAIN obs |->
        IF obs[m].is_inbound = 1 /\ obs[m].replied = 0 /\ LaterOutbound(obs, m) /= {}
        THEN [obs[m] EXCEPT !.replied = 1]
        ELSE obs[m]]

SetReplyTime(obs) ==
    [m \in DOMAIN obs |->
        IF obs[m].is_inbound = 1 /\ obs[m].replied = 1 /\ obs[m].reply_time_mins = NONE
        THEN [obs[m] EXCEPT !.reply_time_mins =
                IF LaterOutbound(obs, m) = {} THEN NONE
                ELSE Min({MinutesBetween(obs[m].timestamp, obs[k].timestamp) :
                            k \in LaterOutbound(obs, m)})]
        ELSE obs[m]]

RECURSIVE SumOver(_, _)
SumOver(S, f) ==
    IF S = {} THEN 0
    ELSE LET x == CHOOSE y \in S : TRUE IN f[x] + SumOver(S \ {x}, f)

RECURSIVE GCD(_, _)
GCD(a, b) == IF b = 0 THEN a ELSE GCD(b, a % b)

\* AVG over the rows S of reply_time_mins, as a fraction in lowest terms
Average(obs, S) ==
    IF S = {} THEN NoAverage
    ELSE LET sum == SumOver(S, [m \in S |-> obs[m].reply_time_mins])
             n == Cardinality(S)
             g == GCD(sum, n)
         IN [num |-> sum \div g, den |-> n \div g]

UpdateAverages(obs, cts) ==
    LET measured(e) == {m \in DOMAIN obs :
                          /\ obs[m].from_email = e
                          /\ obs[m].is_inbound = 1 /\ obs[m].replied = 1
                          /\ obs[m].reply_time_mins /= NONE}
    IN [e \in DOMAIN cts |->
          IF measured(e) /= {}
          THEN [cts[e] EXCEPT !.avg_response_time_mins =
                  Average(obs, {m \in measured(e) : obs[m].reply_time_mins > 0})]
          ELSE cts[e]]

\* the batch with its first two UPDATE statements in the other order
detect_reply_patterns_Swapped(obs, cts) ==
    LET obs2 == MarkReplied(SetReplyTime(obs))
    IN [obs |-> obs2, cts |-> UpdateAverages(obs2, cts)]

detect_reply_patterns(obs, cts) ==
    LET obs2 == SetReplyTime(MarkReplied(obs))
    IN [obs |-> obs2, cts |-> UpdateAverages(obs2, cts)]

----------------------------------------------------------------------------
(* Email observation *)

\* whoami: what `gog auth whoami` yields (NULL when the call fails);
\* otherwise the most frequent sender among the rows labelled SENT
detect_user_email(whoami) ==
    IF whoami /= NULL THEN {whoami}
    ELSE LET sent == {m \in DOMAIN email_observations : email_observations[m].sent}
             n(e) == Cardinality({m \in sent : email_observations[m].from_email = e})
             senders == {email_observations[m].from_email : m \in sent}
         IN IF sent = {} THEN {NULL}
            ELSE {e \in senders : \A f \in senders : n(f) <= n(e)}

\* a message of the feed: [thread_id, id, from, to, internal_date, sent];
\* from is the extracted From address ("" without the header), to the list
\* of extracted To addresses; absent values are NULL
\* the loop with INSERT OR REPLACE in place of INSERT OR IGNORE
RECURSIVE ProcessMessages_Replace(_, _, _, _, _)
ProcessMessages_Replace(msgs, obs, cts, count, user_email) ==
    IF msgs = <<>> THEN [obs |-> obs, cts |-> cts, count |-> count]
    ELSE LET msg == Head(msgs)
             timestamp == IF msg.internal_date /= NONE
                          THEN DateTimeText(msg.internal_date) ELSE now_iso
             is_inbound == IF msg.from = "" THEN NONE
                           ELSE IF user_email /= NULL
                                THEN (IF msg.from /= user_email THEN 1 ELSE 0)
                                ELSE NONE
             row == [thread_id |-> msg.thread_id, from_email |-> msg.from,
                     to_emails |-> msg.to, timestamp |-> timestamp,
                     is_inbound |-> is_inbound, replied |-> 0,
                     reply_time_mins |-> NONE, sent |-> msg.sent]
             inserted == msg.id \notin DOMAIN obs
             obs2 == [k \in DOMAIN obs \cup {msg.id} |->
                        IF k = msg.id THEN row ELSE obs[k]]
             cts2 == IF msg.from /= ""
                     THEN upsert_contact(cts, msg.from, NULL, "email") ELSE cts
             cts3 == UpsertAll(cts2, SelectSeq(msg.to, LAMBDA t : t /= ""), "email")
         IN IF msg.thread_id = NONE \/ msg.id = NONE
            THEN ProcessMessages_Replace(Tail(msgs), obs, cts, count, user_email)
            ELSE ProcessMessages_Replace(Tail(msgs), obs2, cts3,
                                 IF inserted THEN count + 1 ELSE count, user_email)

\* the loop upserting the participants only of a newly inserted message
RECURSIVE ProcessMessages_UpsertOnInsert(_, _, _, _, _)
ProcessMessages_UpsertOnInsert(msgs, obs, cts, count, user_email) ==
    IF msgs = <<>> THEN [obs |-> obs, cts |-> cts, count |-> count]
    ELSE LET msg == Head(msgs)
             timestamp == IF msg.internal_date /= NONE
                          THEN DateTimeText(msg.internal_date) ELSE now_iso
             is_inbound == IF msg.from = "" THEN NONE
                           ELSE IF user_email /= NULL
                                THEN (IF msg.from /= user_email THEN 1 ELSE 0)
                                ELSE NONE
             row == [thread_id |-> msg.thread_id, from_email |-> msg.from,
                     to_emails |-> msg.to, timestamp |-> timestamp,
                     is_inbound |-> is_inbound, replied |-> 0,
                     reply_time_mins |-> NONE, sent |-> msg.sent]
             inserted == msg.id \notin DOMAIN obs
             obs2 == IF inserted
                     THEN [k \in DOMAIN obs \cup {msg.id} |->
                             IF k = msg.id THEN row ELSE obs[k]]
                     ELSE obs
             cts2 == IF msg.from /= ""
                     THEN upsert_contact(cts, msg.from, NULL, "email") ELSE cts
             cts3 == UpsertAll(cts2, SelectSeq(msg.to, LAMBDA t : t /= ""), "email")
         IN IF msg.thread_id = NONE \/ msg.id = NONE
            THEN ProcessMessages_UpsertOnInsert(Tail(msgs), obs, cts, count, user_email)
            ELSE ProcessMessages_UpsertOnInsert(Tail(msgs), obs2,
                                 IF inserted THEN cts3 ELSE cts,
                                 IF inserted THEN count + 1 ELSE count, user_email)

\* the loop over the messages of the feed
RECURSIVE ProcessMessages(_, _, _, _, _)
ProcessMessages(msgs, obs, cts, count, user_email) ==
    IF msgs = <<>> THEN [obs |-> obs, cts |-> cts, count |-> count]
    ELSE LET msg == Head(msgs)
             timestamp == IF msg.internal_date /= NONE
                          THEN DateTimeText(msg.internal_date) ELSE now_iso
             is_inbound == IF msg.from = "" THEN NONE
                           ELSE IF user_email /= NULL
                                THEN (IF msg.from /= user_email THEN 1 ELSE 0)
                                ELSE NONE
             row == [thread_id |-> msg.thread_id, from_email |-> msg.from,
                     to_emails |-> msg.to, timestamp |-> timestamp,
                     is_inbound |-> is_inbound, replied |-> 0,
                     reply_time_mins |-> NONE, sent |-> msg.sent]
             inserted == msg.id \notin DOMAIN obs
             obs2 == IF inserted
                     THEN [k \in DOMAIN obs \cup {msg.id} |->
                             IF k = msg.id THEN row ELSE obs[k]]
                     ELSE obs
             cts2 == IF msg.from /= ""
                     THEN upsert_contact(cts, msg.from, NULL, "email") ELSE cts
             cts3 == UpsertAll(cts2, SelectSeq(msg.to, LAMBDA t : t /= ""), "email")
         IN IF msg.thread_id = NONE \/ msg.id = NONE
            THEN ProcessMessages(Tail(msgs), obs, cts, count, user_email)
            ELSE ProcessMessages(Tail(msgs), obs2, cts3,
                                 IF inserted THEN count + 1 ELSE count, user_email)

\* outcome: "fetch_error" (gog fails), "malformed" (neither JSON shape
\* parses: the feed is read as empty) or "ok" with the parsed messages
observe_email(outcome, msgs, whoami) ==
    /\ IF outcome = "fetch_error"
       THEN /\ ret' = [op |-> "observe_email", val |-> "err"]
            /\ UNCHANGED <<email_observations, contacts>>
       ELSE \E user_email \in detect_user_email(whoami) :
            LET threads == IF outcome = "malformed" THEN <<>> ELSE msgs
                done == ProcessMessages(threads, email_observations, contacts,
                                        0, user_email)
                after == detect_reply_patterns(done.obs, done.cts)
            IN /\ \A e \in DOMAIN done.cts :
                     done.cts[e].interaction_count <= InteractionCap(e)
               /\ email_observations' = after.obs
               /\ contacts' = after.cts
               /\ ret' = [op |-> "observe_email", val |-> done.count]
    /\ UNCHANGED <<app, clock, calendar_events, suggestions, autonomy_settings>>

----------------------------------------------------------------------------
(* Suggestion management *)

\* UPDATE autonomy_settings SET <field> = <field> + 1
\* WHERE activity_type = (SELECT type FROM suggestions WHERE id = ?1)
IncrementCounter(field, id) ==
    [a \in DOMAIN autonomy_settings |->
        IF id \in DOMAIN suggestions /\ a = suggestions[id].type
        THEN [autonomy_settings[a] EXCEPT ![field] = @ + 1]
        ELSE autonomy_settings[a]]

\* UPDATE suggestions SET status = ?, acted_at = now WHERE id = ?
MarkActed(id, status) ==
    [i \in DOMAIN suggestions |->
        IF i = id
        THEN [suggestions[i] EXCEPT !.status = status, !.acted_at = now_iso]
        ELSE suggestions[i]]

dismiss_suggestion(id) ==
    /\ suggestions' = MarkActed(id, "dismissed")
    /\ autonomy_settings' = IncrementCounter("total_dismissed", id)
    /\ ret' = [op |-> "dismiss_suggestion", val |-> "ok"]
    /\ UNCHANGED <<app, clock, contacts, calendar_events, email_observations>>

accept_suggestion(id) ==
    /\ suggestions' = MarkActed(id, "accepted")
    /\ autonomy_settings' = IncrementCounter("total_accepted", id)
    /\ ret' = [op |-> "accept_suggestion",
               val |-> IF id \in DOMAIN suggestions THEN "ok" ELSE "err"]
    /\ UNCHANGED <<app, clock, contacts, calendar_events, email_observations>>

\* the sequences a query "ORDER BY key DESC" over the rows S may return
RECURSIVE OrderBy(_, _)
OrderBy(S, key) ==
    IF S = {} THEN {<<>>}
    ELSE LET top == {x \in S : \A y \in S : key[y] <= key[x]}
         IN UNION {{<<x>> \o q : q \in OrderBy(S \ {x}, key)} : x \in top}

\* LIMIT 20
ListLimit == 20

\* get_suggestions without "AND (expires_at IS NULL OR expires_at > ?1)"
get_suggestions_NoExpiryFilter ==
    LET rows == {i \in DOMAIN suggestions : suggestions[i].status = "pending"}
        key == [i \in rows |->
                  suggestions[i].confidence * 100000 + suggestions[i].created_at]
    IN /\ \E q \in OrderBy(rows, key) :
             ret' = [op |-> "get_suggestions",
                     val |-> [j \in 1..Min({Len(q), ListLimit}) |->
                                [id |-> q[j], suggestion |-> suggestions[q[j]]]]]
       /\ UNCHANGED <<app, clock, store>>

\* SELECT ... WHERE status = 'pending' AND (expires_at IS NULL OR expires_at > now)
\* ORDER BY confidence DESC, created_at DESC LIMIT 20
get_suggestions ==
    LET rows == {i \in DOMAIN suggestions :
                    /\ suggestions[i].status = "pending"
                    /\ \/ suggestions[i].expires_at = NONE
                       \/ suggestions[i].expires_at > now_iso}
        key == [i \in rows |->
                  suggestions[i].confidence * 100000 + suggestions[i].created_at]
    IN /\ \E q \in OrderBy(rows, key) :
             ret' = [op |-> "get_suggestions",
                     val |-> [j \in 1..Min({Len(q), ListLimit}) |->
                                [id |-> q[j], suggestion |-> suggestions[q[j]]]]]
       /\ UNCHANGED <<app, clock, store>>

----------------------------------------------------------------------------
(* Autonomy settings *)

\* set_autonomy_level without the valid_levels check
set_autonomy_level_NoValidation(activity_type, level) ==
    /\ autonomy_settings' =
          [a \in DOMAIN autonomy_settings |->
              IF a = activity_type
              THEN [autonomy_settings[a] EXCEPT
                      !.level = level, !.promoted_at = now_iso]
              ELSE autonomy_settings[a]]
    /\ ret' = [op |-> "set_autonomy_level", val |-> "ok"]
    /\ UNCHANGED <<app, clock, contacts, calendar_events, email_observations,
                   suggestions>>

\* set_autonomy_level whose UPDATE has lost its WHERE clause
set_autonomy_level_AllRows(activity_type, level) ==
    /\ IF level \notin Levels
       THEN /\ ret' = [op |-> "set_autonomy_level", val |-> "err"]
            /\ UNCHANGED autonomy_settings
       ELSE /\ autonomy_settings' =
                [a \in DOMAIN autonomy_settings |->
                    [autonomy_settings[a] EXCEPT
                        !.level = level, !.promoted_at = now_iso]]
            /\ ret' = [op |-> "set_autonomy_level", val |-> "ok"]
    /\ UNCHANGED <<app, clock, contacts, calendar_events, email_observations,
                   suggestions>>

set_autonomy_level(activity_type, level) ==
    /\ IF level \notin Levels
       THEN /\ ret' = [op |-> "set_autonomy_level", val |-> "err"]
            /\ UNCHANGED autonomy_settings
       ELSE /\ autonomy_settings' =
                [a \in DOMAIN autonomy_settings |->
                    IF a = activity_type
                    THEN [autonomy_settings[a] EXCEPT
                            !.level = level, !.promoted_at = now_iso]
                    ELSE autonomy_settings[a]]
            /\ ret' = [op |-> "set_autonomy_level", val |-> "ok"]
    /\ UNCHANGED <<app, clock, contacts, calendar_events, email_observations,
                   suggestions>>

\* the WHERE clause without "total_dismissed = 0"
Eligible_IgnoresDismissed(settings) ==
    {a \in DOMAIN settings :
        /\ settings[a].total_accepted >= 10
        /\ settings[a].level /= "act"}

\* the rows selected by the WHERE clause of check_promotion_eligibility
Eligible(settings) ==
    {a \in DOMAIN settings :
        /\ settings[a].total_accepted >= 10
        /\ settings[a].total_dismissed = 0
        /\ settings[a].level /= "act"}

\* ORDER BY total_accepted DESC LIMIT 1: a row with the largest counter
\* (the store may return any of several equal ones), or None
PromotionResults(settings) ==
    IF Eligible(settings) = {} THEN {NULL}
    ELSE {a \in Eligible(settings) :
            \A b \in Eligible(settings) :
                settings[b].total_accepted <= settings[a].total_accepted}

check_promotion_eligibility ==
    /\ \E r \in PromotionResults(autonomy_settings) :
          ret' = [op |-> "check_promotion_eligibility",
                  val |-> IF r = NULL THEN {}
                          ELSE {[activity_type |-> r,
                                 setting |-> autonomy_settings[r]]}]
    /\ UNCHANGED <<app, clock, store>>

next_autonomy_level(current) ==
    CASE current = "observe" -> "suggest"
      [] current = "suggest" -> "draft"
      [] current = "draft" -> "act"
      [] OTHER -> NULL

----------------------------------------------------------------------------
(* Data management *)

\* clear_all_data that also puts every level back to its seed
clear_all_data_ResetsLevels ==
    /\ email_observations' = EmptyTable
    /\ calendar_events' = EmptyTable
    /\ contacts' = EmptyTable
    /\ suggestions' = EmptyTable
    /\ autonomy_settings' =
          [a \in DOMAIN autonomy_settings |->
              [autonomy_settings[a] EXCEPT
                  !.level = SeedLevel(a),
                  !.total_accepted = 0, !.total_dismissed = 0]]
    /\ ret' = [op |-> "clear_all_data", val |-> "ok"]
    /\ UNCHANGED <<app, clock>>

\* clear_all_data without "DELETE FROM suggestions"
clear_all_data_KeepsSuggestions ==
    /\ email_observations' = EmptyTable
    /\ calendar_events' = EmptyTable
    /\ contacts' = EmptyTable
    /\ autonomy_settings' =
          [a \in DOMAIN autonomy_settings |->
              [autonomy_settings[a] EXCEPT
                  !.total_accepted = 0, !.total_dismissed = 0]]
    /\ ret' = [op |-> "clear_all_data", val |-> "ok"]
    /\ UNCHANGED <<app, clock, suggestions>>

clear_all_data ==
    /\ email_observations' = EmptyTable
    /\ calendar_events' = EmptyTable
    /\ contacts' = EmptyTable
    /\ suggestions' = EmptyTable
    /\ autonomy_settings' =
          [a \in DOMAIN autonomy_settings |->
              [autonomy_settings[a] EXCEPT
                  !.total_accepted = 0, !.total_dismissed = 0]]
    /\ ret' = [op |-> "clear_all_data", val |-> "ok"]
    /\ UNCHANGED <<app, clock>>

----------------------------------------------------------------------------
(* Pattern detection *)

\* the sequences a query "ORDER BY key DESC LIMIT n" over the rows S may
\* return: rows of equal key come in any order
RECURSIVE OrderedTake(_, _, _)
OrderedTake(S, key, n) ==
    IF n = 0 \/ S = {} THEN {<<>>}
    ELSE UNION {{<<x>> \o q : q \in OrderedTake(S \ {x}, key, n - 1)} :
                x \in {y \in S : \A z \in S : key[y] >= key[z]}}

\* SELECT COALESCE(contact_email, '') FROM suggestions
\* WHERE type = ? AND status = 'pending'
PendingContacts(type) ==
    {IF suggestions[i].contact_email = NULL THEN "" ELSE suggestions[i].contact_email :
        i \in {j \in DOMAIN suggestions :
                 suggestions[j].type = type /\ suggestions[j].status = "pending"}}

Candidate(type, email, confidence, days) ==
    [type |-> type, contact_email |-> email, confidence |-> confidence,
     status |-> "pending", created_at |-> now_iso, acted_at |-> NONE,
     expires_at |-> days_ahead(days)]

\* c.interaction_count of the LEFT JOIN: NULL (sorted last) without a row
JoinedCount(email) ==
    IF email \in DOMAIN contacts THEN contacts[email].interaction_count ELSE -1

\* confidence in hundredths: (count / 20).min(0.9)
CatchUpConfidence(count) == IF count * 5 < 90 THEN count * 5 ELSE 90

detect_frequent_contacts ==
    LET rows == {e \in DOMAIN contacts :
                    /\ SqlGe(contacts[e].last_seen, days_ago(14))
                    /\ SqlLt(contacts[e].last_seen, days_ago(5))
                    /\ contacts[e].interaction_count >= 3
                    /\ e \notin PendingContacts("catch_up")}
        key == [e \in rows |-> contacts[e].interaction_count]
    IN {[i \in DOMAIN q |->
            Candidate("catch_up", q[i],
                      CatchUpConfidence(contacts[q[i]].interaction_count), 7)] :
        q \in OrderedTake(rows, key, 5)}

\* the query without its NOT IN clause
detect_unanswered_threads_NoPendingFilter ==
    LET rows == {m \in DOMAIN email_observations :
                    /\ email_observations[m].is_inbound = 1
                    /\ email_observations[m].replied = 0
                    /\ SqlLt(email_observations[m].timestamp, days_ago(1))
                    /\ SqlGe(email_observations[m].timestamp, days_ago(7))}
        key == [m \in rows |->
                  JoinedCount(email_observations[m].from_email) * 100000
                    - email_observations[m].timestamp]
    IN {[i \in DOMAIN q |->
            Candidate("respond", email_observations[q[i]].from_email, 70, 3)] :
        q \in OrderedTake(rows, key, 5)}

detect_unanswered_threads ==
    LET rows == {m \in DOMAIN email_observations :
                    /\ email_observations[m].is_inbound = 1
                    /\ email_observations[m].replied = 0
                    /\ SqlLt(email_observations[m].timestamp, days_ago(1))
                    /\ SqlGe(email_observations[m].timestamp, days_ago(7))
                    /\ email_observations[m].from_email \notin PendingContacts("respond")}
        \* ORDER BY c.interaction_count DESC, e.timestamp ASC
        key == [m \in rows |->
                  JoinedCount(email_observations[m].from_email) * 100000
                    - email_observations[m].timestamp]
    IN {[i \in DOMAIN q |->
            Candidate("respond", email_observations[q[i]].from_email, 70, 3)] :
        q \in OrderedTake(rows, key, 5)}

\* the HAVING clause asking for three messages
detect_reachout_attempts_ThreeMessages ==
    LET rows == {m \in DOMAIN email_observations :
                    /\ email_observations[m].is_inbound = 1
                    /\ email_observations[m].replied = 0
                    /\ SqlGe(email_observations[m].timestamp, days_ago(7))}
        cnt(e) == Cardinality({m \in rows : email_observations[m].from_email = e})
        groups == {e \in {email_observations[m].from_email : m \in rows} :
                    cnt(e) >= 3 /\ e \notin PendingContacts("reachout")}
    IN {[i \in DOMAIN q |-> Candidate("reachout", q[i], 85, 3)] :
        q \in OrderedTake(groups, [e \in groups |-> cnt(e)], 5)}

detect_reachout_attempts ==
    LET rows == {m \in DOMAIN email_observations :
                    /\ email_observations[m].is_inbound = 1
                    /\ email_observations[m].replied = 0
                    /\ SqlGe(email_observations[m].timestamp, days_ago(7))}
        cnt(e) == Cardinality({m \in rows : email_observations[m].from_email = e})
        groups == {e \in {email_observations[m].from_email : m \in rows} :
                    cnt(e) >= 2 /\ e \notin PendingContacts("reachout")}
    IN {[i \in DOMAIN q |-> Candidate("reachout", q[i], 85, 3)] :
        q \in OrderedTake(groups, [e \in groups |-> cnt(e)], 5)}

\* json_each(attendees): one row per element of the attendee list
AttendeeRows(events) ==
    UNION {{<<ev, i>> : i \in DOMAIN calendar_events[ev].attendees} : ev \in events}

detect_meeting_patterns ==
    LET thirty_days == days_ago(30)
        fourteen_days == days_ago(14)
        past == {ev \in DOMAIN calendar_events :
                    /\ SqlGe(calendar_events[ev].start_time, thirty_days)
                    /\ SqlLt(calendar_events[ev].start_time, fourteen_days)}
        upcoming == {ev \in DOMAIN calendar_events :
                    SqlGe(calendar_events[ev].start_time, fourteen_days)}
        who(r) == calendar_events[r[1]].attendees[r[2]]
        meeting_count(e) == Cardinality({r \in AttendeeRows(past) : who(r) = e})
        groups == {e \in {who(r) : r \in AttendeeRows(past)} :
                    /\ meeting_count(e) >= 3
                    /\ e \notin {who(r) : r \in AttendeeRows(upcoming)}
                    /\ e \notin PendingContacts("schedule_meeting")}
    IN {[i \in DOMAIN q |-> Candidate("schedule_meeting", q[i], 60, 7)] :
        q \in OrderedTake(groups, [e \in groups |-> meeting_count(e)], 5)}

----------------------------------------------------------------------------
(* generate_suggestions *)

Detectors == {"reachout", "respond", "catch_up", "schedule_meeting"}

\* SELECT level FROM autonomy_settings WHERE activity_type = ?1,
\* .unwrap_or_else(|_| "suggest") when no row is selected
AutonomyLevelFor(type) ==
    IF type \in DOMAIN autonomy_settings
    THEN autonomy_settings[type].level ELSE "suggest"

\* the dedup query looking for an accepted row instead of a pending one
PendingExists_Accepted(table, type, email) ==
    \E i \in DOMAIN table :
        /\ table[i].type = type
        /\ email /= NULL /\ table[i].contact_email = email
        /\ table[i].status = "accepted"

\* SELECT COUNT(*) ... WHERE type = ?1 AND contact_email = ?2 AND status = 'pending'
PendingExists(table, type, email) ==
    \E i \in DOMAIN table :
        /\ table[i].type = type
        /\ email /= NULL /\ table[i].contact_email = email
        /\ table[i].status = "pending"

\* INTEGER PRIMARY KEY without AUTOINCREMENT: one more than the largest id
NextRowId(table) == IF DOMAIN table = {} THEN 1 ELSE Max(DOMAIN table) + 1

InsertRow(table, row) ==
    [i \in DOMAIN table \cup {NextRowId(table)} |->
        IF i \in DOMAIN table THEN table[i] ELSE row]

\* the loop over the candidates: the table and the count after it
RECURSIVE InsertAll(_, _, _)
InsertAll(all, table, count) ==
    IF all = <<>> THEN [table |-> table, count |-> count]
    ELSE LET suggestion == Head(all)
         IN IF AutonomyLevelFor(suggestion.type) = "observe"
            THEN InsertAll(Tail(all), table, count)
            ELSE IF PendingExists(table, suggestion.type, suggestion.contact_email)
            THEN InsertAll(Tail(all), table, count)
            ELSE InsertAll(Tail(all), InsertRow(table, suggestion), count + 1)

\* the sweep stamping acted_at on the rows it expires
SweepExpired_StampsActed(table) ==
    [i \in DOMAIN table |->
        IF table[i].status = "pending" /\ SqlLt(table[i].expires_at, now_iso)
        THEN [table[i] EXCEPT !.status = "expired", !.acted_at = now_iso]
        ELSE table[i]]

\* UPDATE suggestions SET status = 'expired'
\* WHERE status = 'pending' AND expires_at IS NOT NULL AND expires_at < now
SweepExpired(table) ==
    [i \in DOMAIN table |->
        IF table[i].status = "pending" /\ SqlLt(table[i].expires_at, now_iso)
        THEN [table[i] EXCEPT !.status = "expired"]
        ELSE table[i]]

\* DELETE FROM suggestions
\* WHERE status IN ('dismissed', 'expired', 'executed') AND acted_at < days_ago(30)
DeleteOld(table) ==
    LET gone == {i \in DOMAIN table :
                    /\ table[i].status \in {"dismissed", "expired", "executed"}
                    /\ SqlLt(table[i].acted_at, days_ago(30))}
    IN [i \in DOMAIN table \ gone |-> table[i]]

\* failed: the detectors whose call returns Err in this run
generate_suggestions(failed) ==
    \E s1 \in IF "reachout" \in failed THEN {<<>>} ELSE detect_reachout_attempts,
       s2 \in IF "respond" \in failed THEN {<<>>} ELSE detect_unanswered_threads,
       s3 \in IF "catch_up" \in failed THEN {<<>>} ELSE detect_frequent_contacts,
       s4 \in IF "schedule_meeting" \in failed THEN {<<>>} ELSE detect_meeting_patterns :
        LET all == s1 \o s2 \o s3 \o s4
            done == InsertAll(all, suggestions, 0)
        IN /\ IF all = <<>>
              THEN /\ ret' = [op |-> "generate_suggestions", val |-> 0]
                   /\ UNCHANGED suggestions
              ELSE /\ \A t \in {done.table} :
                      \A e \in {t[i].contact_email : i \in DOMAIN t} :
                         Cardinality({i \in DOMAIN t : t[i].contact_email = e})
                            <= MaxSuggestions
                   /\ suggestions' = DeleteOld(SweepExpired(done.table))
                   /\ ret' = [op |-> "generate_suggestions", val |-> done.count]
           /\ UNCHANGED <<app, clock, contacts, calendar_events, email_observations,
                          autonomy_settings>>

----------------------------------------------------------------------------
(* The environment: what the feeds deliver and what the user calls *)

\* the messages the mail account holds: a message keeps its content, so the
\* feed delivers the same message whenever it delivers an id
MessageIds == {1, 2}
Message(i) ==
    [thread_id |-> 1, id |-> i, from |-> "a@x.com", to |-> <<>>,
     internal_date |-> (StartDay - 2) * TicksPerDay,
     sent |-> FALSE]

EmailFeeds == {<<Message(i)>> : i \in MessageIds}

EventIds == {1}
Event(i) ==
    [id |-> i, start |-> DateTimeText(StartDay * TicksPerDay),
     attendees |-> <<[email |-> "a@x.com", display_name |-> "A"]>>,
     organizer |-> NULL]

CalendarFeeds == {<<Event(i)>> : i \in EventIds}

SuggestionIds == 1..MaxSuggestions
SetTypes == {"scheduling", "respond"}
SetLevels == {"observe", "suggest", "auto"}
FailSets == {{}}

\* the calls made while the clock stands still
Next ==
    \/ \E f \in EmailFeeds : observe_email("ok", f, Self)
    \/ \E f \in CalendarFeeds : observe_calendar("ok", f)
    \/ \E failed \in FailSets : generate_suggestions(failed)
    \/ \E id \in SuggestionIds : accept_suggestion(id)
    \/ \E id \in SuggestionIds : dismiss_suggestion(id)
    \/ \E a \in SetTypes, l \in SetLevels : set_autonomy_level(a, l)
    \/ check_promotion_eligibility
    \/ clear_all_data

Spec == Init /\ [][Next]_vars

\* clock steps, in ticks
Steps == {10 * TicksPerDay, 21 * TicksPerDay}

\* the suggestion lifecycle over the days
NextTime ==
    \/ \E k \in Steps : Advance(k)
    \/ \E f \in EmailFeeds : observe_email("ok", f, Self)
    \/ \E failed \in FailSets : generate_suggestions(failed)
    \/ \E id \in SuggestionIds : dismiss_suggestion(id)

SpecTime == Init /\ [][NextTime]_vars

\* every setting lowered to observe, then a generation run
NextGate ==
    \/ \E f \in EmailFeeds : observe_email("ok", f, Self)
    \/ \E failed \in FailSets : generate_suggestions(failed)
    \/ \E a \in ActivityTypes : set_autonomy_level(a, "observe")
    \/ \E id \in SuggestionIds : dismiss_suggestion(id)

SpecGate == Init /\ [][NextGate]_vars

\* check_promotion_eligibility as a function of the autonomy_settings table:
\* the table is drawn from the rows below
AcceptedValues == {9, 10, 11}
DismissedValues == {0, 1}
LevelValues == {"suggest", "act"}

InitElig ==
    /\ clock = StartDay * TicksPerDay
    /\ contacts = EmptyTable
    /\ calendar_events = EmptyTable
    /\ email_observations = EmptyTable
    /\ suggestions = EmptyTable
    /\ autonomy_settings \in
          [ActivityTypes ->
              [level : LevelValues, promoted_at : {NONE},
               total_accepted : AcceptedValues, total_dismissed : DismissedValues]]
    /\ ret = [op |-> "init_db", val |-> "ok"]
    /\ capability = TRUE
    /\ observer = "running"

NextElig == check_promotion_eligibility

SpecElig == InitElig /\ [][NextElig]_vars

\* get_suggestions as a function of the suggestions table and the clock.
\* The table holds n rows as generate_suggestions inserts them, one per
\* (type, contact) pair: row 1 is a respond suggestion created 2, 3 or 4
\* days ago (so it expires tomorrow, today or yesterday), row 2 is pending or
\* was acted on, every other row is pending and was created in the last two
\* days.
ListTypes == <<"reachout", "respond", "catch_up", "schedule_meeting">>
ListContacts == <<"a@x.com", "b@x.com", "c@x.com", "d@x.com", "e@x.com", "f@x.com">>

\* what the detector of each type sets: confidence (hundredths) and days to expiry
ListConfidence(type) ==
    CASE type = "reachout" -> 85
      [] type = "respond" -> 70
      [] type = "catch_up" -> CatchUpConfidence(3)
      [] type = "schedule_meeting" -> 60

ListDays(type) == IF type \in {"reachout", "respond"} THEN 3 ELSE 7

ListRow(i, c1, s2) ==
    LET type == ListTypes[(i % 4) + 1]
        created == IF i = 1 THEN c1
                   ELSE StartDay * TicksPerDay - ((i \div 4) % 5)
        status == IF i = 2 THEN s2 ELSE "pending"
    IN [type |-> type, contact_email |-> ListContacts[(i \div 4) + 1],
        confidence |-> ListConfidence(type), status |-> status,
        created_at |-> DateTimeText(created),
        acted_at |-> IF status = "pending" THEN NONE ELSE DateTimeText(created),
        expires_at |-> DateText((created \div TicksPerDay) + ListDays(type))]

InitList ==
    /\ clock \in {StartDay * TicksPerDay, StartDay * TicksPerDay + 1}
    /\ contacts = EmptyTable
    /\ calendar_events = EmptyTable
    /\ email_observations = EmptyTable
    /\ \E n \in 0..MaxListed,
          c1 \in {(StartDay - d) * TicksPerDay : d \in {2, 3, 4}},
          s2 \in {"pending", "accepted", "dismissed"} :
            suggestions = [i \in 1..n |-> ListRow(i, c1, s2)]
    /\ autonomy_settings = SeedSettings
    /\ ret = [op |-> "init_db", val |-> "ok"]
    /\ capability = TRUE
    /\ observer = "running"

NextList == get_suggestions

SpecList == InitList /\ [][NextList]_vars

\* the ingestion cycles on a mail thread with replies and on events with
\* several participants.  Message 11 comes in from a@x.com; 12 and 13 are
\* the user's later answers in the same thread (13 written before 12), 14 is
\* a message of the user in another thread, 15 one in the same thread with
\* the timestamp of message 11.  The feed delivers the messages in any order
\* over the cycles, also twice.
ReplyIds == {11, 12, 13, 14, 15}
ReplyMessage(i) ==
    [thread_id |-> IF i = 14 THEN 2 ELSE 1, id |-> i,
     from |-> IF i = 11 THEN "a@x.com" ELSE Self,
     to |-> IF i = 11 THEN <<Self>> ELSE IF i = 12 THEN <<"a@x.com">> ELSE <<>>,
     internal_date |-> (StartDay - 2) * TicksPerDay
                       + (CASE i = 12 -> 2 [] i = 13 -> 1 [] i = 14 -> 3 [] OTHER -> 0),
     sent |-> i /= 11]

ReplyFeeds ==
    {<<>>} \cup {<<ReplyMessage(i)>> : i \in ReplyIds}
           \cup {<<ReplyMessage(11), ReplyMessage(i)>> : i \in {11, 12}}

\* event 21 lists a@x.com as attendee and as organizer and a room without
\* address, event 22 lists b@x.com, and the feed may hold an event without id
IngestEvent(i) ==
    IF i = 21
    THEN [id |-> 21, start |-> DateTimeText(StartDay * TicksPerDay),
          attendees |-> <<[email |-> "a@x.com", display_name |-> "A"],
                          [email |-> NULL, display_name |-> "Room"]>>,
          organizer |-> "a@x.com"]
    ELSE [id |-> i, start |-> DateTimeText(StartDay * TicksPerDay),
          attendees |-> <<[email |-> "b@x.com", display_name |-> NULL]>>,
          organizer |-> NULL]

IngestFeeds ==
    {<<IngestEvent(i)>> : i \in {21, 22, NONE}}
        \cup {<<IngestEvent(22), IngestEvent(22)>>}

NextIngest ==
    \/ \E f \in ReplyFeeds, whoami \in {Self, NULL} : observe_email("ok", f, whoami)
    \/ \E f \in IngestFeeds : observe_calendar("ok", f)
    \/ clear_all_data

SpecIngest == Init /\ [][NextIngest]_vars

\* the ingestion cycles on one contact met again and again, by mail
\* (message 31, and message 34 which also goes to b@x.com) and in meetings
\* (event 32, and event 33 which lists the contact as attendee and as
\* organizer)
ContactMessage(i) ==
    [thread_id |-> 3, id |-> i, from |-> LongContact,
     to |-> IF i = 34 THEN <<"b@x.com">> ELSE <<>>,
     internal_date |-> (StartDay - 1) * TicksPerDay, sent |-> FALSE]

ContactEvent(i) ==
    [id |-> i, start |-> DateTimeText(StartDay * TicksPerDay),
     attendees |-> <<[email |-> LongContact, display_name |-> "C"]>>,
     organizer |-> IF i = 33 THEN LongContact ELSE NULL]

NextContact ==
    \/ \E i \in {31, 34} : observe_email("ok", <<ContactMessage(i)>>, Self)
    \/ \E i \in {32, 33} : observe_calendar("ok", <<ContactEvent(i)>>)

SpecContact == Init /\ [][NextContact]_vars

\* the observer over the days: time passes, and the suggestion timer of
\* start_observer fires again and again
NextExpiry ==
    \/ \E k \in Steps : Advance(k)
    \/ \E f \in EmailFeeds : observe_email("ok", f, Self)
    \/ \E failed \in FailSets : generate_suggestions(failed)

SpecExpiry ==
    /\ Init /\ [][NextExpiry]_vars
    /\ WF_vars(\E k \in Steps : Advance(k))
    /\ WF_vars(\E failed \in FailSets : generate_suggestions(failed))

\* a generation run in which some detectors return Err (their query cannot
\* be prepared or run), over the days
DetectorFailures == SUBSET Detectors

\* what the call of a detector returns when it does not fail
DetectorResult(d) ==
    CASE d = "reachout" -> detect_reachout_attempts
      [] d = "respond" -> detect_unanswered_threads
      [] d = "catch_up" -> detect_frequent_contacts
      [] d = "schedule_meeting" -> detect_meeting_patterns

NextFail ==
    \/ \E k \in Steps : Advance(k)
    \/ \E f \in EmailFeeds : observe_email("ok", f, Self)
    \/ \E failed \in DetectorFailures : generate_suggestions(failed)
    \/ \E id \in SuggestionIds : dismiss_suggestion(id)

SpecFail == Init /\ [][NextFail]_vars

\* a fixed set of deliveries, each made once, in any order: the feed hands
\* over messages 11 (from a@x.com), 12 (the reply to it), 14, 31 and 34
\* (from c@x.com) and events 22 (with b@x.com), 32 and 33 (with c@x.com)
OrderMessages == {11, 12, 14, 31, 34}
OrderEvents == {22, 32, 33}
OrderMessage(i) == IF i \in ReplyIds THEN ReplyMessage(i) ELSE ContactMessage(i)
OrderEvent(i) == IF i = 22 THEN IngestEvent(i) ELSE ContactEvent(i)

NextOrder ==
    \/ \E i \in OrderMessages \ DOMAIN email_observations :
          observe_email("ok", <<OrderMessage(i)>>, Self)
    \/ \E i \in OrderEvents \ DOMAIN calendar_events :
          observe_calendar("ok", <<OrderEvent(i)>>)

SpecOrder == Init /\ [][NextOrder]_vars

\* six senders write today, each message in a thread of its own; the first
\* message of the first sender is 8 days old
ReachoutSenders == <<"a@x.com", "b@x.com", "c@x.com", "d@x.com", "e@x.com", "f@x.com">>
MaxReachoutMessages == 3
ReachoutMessage(k, j) ==
    [thread_id |-> 100 * k + j, id |-> 100 * k + j, from |-> ReachoutSenders[k],
     to |-> <<>>,
     internal_date |-> IF k = 1 /\ j = 1 THEN (StartDay - 8) * TicksPerDay
                       ELSE StartDay * TicksPerDay,
     sent |-> FALSE]

\* messages per sender: any number for the first two senders, two for the
\* next two and three for the last two
ReachoutCounts ==
    {n \in [DOMAIN ReachoutSenders -> 1..MaxReachoutMessages] :
        \A k \in DOMAIN ReachoutSenders : k > 2 => n[k] = 2 + (k \div 5)}

\* what one email cycle stores of the c messages of sender k
SenderStore(k, c) ==
    ProcessMessages([j \in 1..c |-> ReachoutMessage(k, j)],
                    EmptyTable, EmptyTable, 0, Self)

\* the store after one email cycle on the messages of all the senders
InitReachout ==
    /\ clock = StartDay * TicksPerDay
    /\ \E n \in ReachoutCounts :
          /\ email_observations =
                [m \in UNION {{100 * k + j : j \in 1..n[k]} :
                                 k \in DOMAIN ReachoutSenders}
                    |-> SenderStore(m \div 100, n[m \div 100]).obs[m]]
          /\ contacts =
                [e \in {ReachoutSenders[k] : k \in DOMAIN ReachoutSenders} |->
                    LET k == CHOOSE x \in DOMAIN ReachoutSenders : ReachoutSenders[x] = e
                    IN SenderStore(k, n[k]).cts[e]]
    /\ ret = [op |-> "observe_email", val |-> Cardinality(DOMAIN email_observations)]
    /\ calendar_events = EmptyTable
    /\ suggestions = EmptyTable
    /\ autonomy_settings = SeedSettings
    /\ capability = TRUE
    /\ observer = "running"

\* the user dismisses the first suggestion, which makes room for a new one
NextReachout ==
    \/ generate_suggestions({})
    \/ dismiss_suggestion(1)

SpecReachout == InitReachout /\ [][NextReachout]_vars

\* the contact of long standing writes on the first day (messages 41 and 42)
\* and 10 days later (43, 44 and 45); the email cycle of the day a message
\* is written fetches it, once, so that every interaction of the contact is
\* an observation whose timestamp is the time of the interaction
CatchUpIds == {41, 42, 43, 44, 45}
CatchUpMessage(i) ==
    [thread_id |-> i, id |-> i, from |-> LongContact, to |-> <<>>,
     internal_date |-> (StartDay + (IF i <= 42 THEN 0 ELSE 10)) * TicksPerDay,
     sent |-> FALSE]

NextCatchUp ==
    \/ \E k \in Steps : Advance(k)
    \/ \E i \in CatchUpIds \ DOMAIN email_observations :
          /\ clock = CatchUpMessage(i).internal_date
          /\ observe_email("ok", <<CatchUpMessage(i)>>, Self)
    \/ generate_suggestions({})

SpecCatchUp == Init /\ [][NextCatchUp]_vars

\* meetings with the contact of long standing: events 51, 52 and 53 start 5
\* days before the first day, event 54 starts 10 days after it; the feed
\* covers the events that start from 7 days ago to 14 days ahead, and an
\* event is handed over once
MeetingIds == {51, 52, 53, 54}
MeetingEvent(i) ==
    [id |-> i,
     start |-> DateTimeText((StartDay + (IF i = 54 THEN 10 ELSE -5)) * TicksPerDay),
     attendees |-> <<[email |-> LongContact, display_name |-> "C"]>>,
     organizer |-> NULL]

NextMeeting ==
    \/ \E k \in Steps : Advance(k)
    \/ \E i \in MeetingIds \ DOMAIN calendar_events :
          /\ SqlGe(MeetingEvent(i).start, days_ago(7))
          /\ SqlLt(MeetingEvent(i).start, days_ahead(14))
          /\ observe_calendar("ok", <<MeetingEvent(i)>>)
    \/ generate_suggestions({})

SpecMeeting == Init /\ [][NextMeeting]_vars

\* the detectors on a full store: on the first day an email cycle stored
\* the messages the six senders wrote that day and a calendar cycle stored
\* three meetings of 5 days before with the six of them; the suggestion
\* timer comes to run that day, or not before 2, 10 or 21 days later
DetectMessage(k, j) ==
    [thread_id |-> 200 * k + j, id |-> 200 * k + j, from |-> ReachoutSenders[k],
     to |-> <<>>, internal_date |-> StartDay * TicksPerDay, sent |-> FALSE]

\* sender k wrote k + 1 messages, but for the first sender, who wrote any
\* number of them
DetectCounts ==
    {[k \in DOMAIN ReachoutSenders |-> IF k = 1 THEN c ELSE k + 1] :
        c \in 1..MaxReachoutMessages}

\* events 61, 62 and 63 list the six senders, event 64 the last four and
\* event 65 the last two
DetectEventIds == <<61, 62, 63, 64, 65>>
DetectFirst(i) == IF i = 64 THEN 3 ELSE IF i = 65 THEN 5 ELSE 1

DetectEvent(i, who) ==
    [id |-> i, start |-> DateTimeText((StartDay - 5) * TicksPerDay),
     attendees |-> [k \in DOMAIN who |-> [email |-> who[k], display_name |-> NULL]],
     organizer |-> NULL]

DetectDays == {2, 10, 21}

\* the row of sender k after both cycles: the upserts of one contact do not
\* read the rows of the others
DetectContact(k, c) ==
    LET e == ReachoutSenders[k]
        mail == ProcessMessages([j \in 1..c |-> DetectMessage(k, j)],
                                EmptyTable, EmptyTable, 0, Self)
        mine == SelectSeq(DetectEventIds, LAMBDA i : DetectFirst(i) <= k)
    IN ProcessEvents([x \in DOMAIN mine |-> DetectEvent(mine[x], <<e>>)],
                     EmptyTable, mail.cts, 0).cts[e]

InitDetect ==
    /\ clock = StartDay * TicksPerDay
    /\ \E n \in DetectCounts :
          /\ email_observations =
                [m \in UNION {{200 * k + j : j \in 1..n[k]} :
                                 k \in DOMAIN ReachoutSenders}
                    |-> ProcessMessages(<<DetectMessage(m \div 200, m % 200)>>,
                                        EmptyTable, EmptyTable, 0, Self).obs[m]]
          /\ contacts =
                [e \in {ReachoutSenders[k] : k \in DOMAIN ReachoutSenders} |->
                    LET k == CHOOSE x \in DOMAIN ReachoutSenders : ReachoutSenders[x] = e
                    IN DetectContact(k, n[k])]
    /\ calendar_events =
          [i \in {DetectEventIds[x] : x \in DOMAIN DetectEventIds} |->
              ProcessEvents(<<DetectEvent(i, SubSeq(ReachoutSenders, DetectFirst(i),
                                                   Len(ReachoutSenders)))>>,
                            EmptyTable, EmptyTable, 0).cal[i]]
    /\ ret = [op |-> "observe_calendar", val |-> Len(DetectEventIds)]
    /\ suggestions = EmptyTable
    /\ autonomy_settings = SeedSettings
    /\ capability = TRUE
    /\ observer = "running"

NextDetect ==
    \/ /\ clock = StartDay * TicksPerDay /\ suggestions = EmptyTable
       /\ \E d \in DetectDays : Advance(d * TicksPerDay)
    \/ generate_suggestions({})
    \/ dismiss_suggestion(1)

SpecDetect == InitDetect /\ [][NextDetect]_vars

\* the ingestion cycles with every outcome of the external call: gog fails,
\* or its output is not JSON of either shape, or it delivers a feed
FeedOutcomes == {"ok", "fetch_error", "malformed"}

NextParse ==
    \/ \E outcome \in FeedOutcomes, f \in ReplyFeeds : observe_email(outcome, f, Self)
    \/ \E outcome \in FeedOutcomes, f \in IngestFeeds : observe_calendar(outcome, f)

SpecParse == Init /\ [][NextParse]_vars

\* the suggestions of one contact over a week: the messages are fetched,
\* generation runs, the user accepts the first suggestion and dismisses the
\* second (before or after their expiry), and the days pass four
\* at a time, so that a suggestion of 3 days is past its expiry when the
\* next one is found
ActedStep == 4 * TicksPerDay
ActedDays == 8

NextActed ==
    \/ clock + ActedStep <= (StartDay + ActedDays) * TicksPerDay /\ Advance(ActedStep)
    \/ \E f \in EmailFeeds : observe_email("ok", f, Self)
    \/ generate_suggestions({})
    \/ accept_suggestion(1)
    \/ dismiss_suggestion(2)

SpecActed == Init /\ [][NextActed]_vars

\* the email cycles with and without a known self address, and the reset
NextDirection ==
    \/ \E f \in ReplyFeeds, whoami \in {Self, NULL} : observe_email("ok", f, whoami)
    \/ clear_all_data

SpecDirection == Init /\ [][NextDirection]_vars

----------------------------------------------------------------------------
(* The application: the capability flag and the observer's timers *)

\* the flag is changed from outside (the settings of the host application)
set_capability(enabled) ==
    /\ capability' = enabled
    /\ UNCHANGED <<clock, store, ret, observer>>

\* tick of calendar_interval: the flag is read, and the cycle runs if it is set
calendar_tick ==
    /\ observer = "running"
    /\ IF ~capability THEN UNCHANGED vars
       ELSE \E f \in CalendarFeeds : observe_calendar("ok", f)

\* tick of email_interval
email_tick ==
    /\ observer = "running"
    /\ IF ~capability THEN UNCHANGED vars
       ELSE \E f \in EmailFeeds : observe_email("ok", f, Self)

\* tick of suggestion_interval
suggestion_tick ==
    /\ observer = "running"
    /\ IF ~capability THEN UNCHANGED vars
       ELSE \E failed \in FailSets : generate_suggestions(failed)

\* after the setup of the application: start_observer has been called only
\* if the flag was set
InitApp ==
    /\ clock = StartDay * TicksPerDay
    /\ init_db
    /\ ret = [op |-> "init_db", val |-> "ok"]
    /\ capability \in BOOLEAN
    /\ observer = IF capability THEN "running" ELSE "not_started"

\* the application runs without being restarted
NextApp ==
    \/ \E enabled \in BOOLEAN : set_capability(enabled)
    \/ calendar_tick
    \/ email_tick
    \/ suggestion_tick

SpecApp == InitApp /\ [][NextApp]_vars

----------------------------------------------------------------------------
(* The observer task with its external calls: start_observer is one task,
   and the branch of select! that was chosen runs to its end, the blocking
   call of gog included, before the timers are polled again *)

\* the task is inside observe_calendar or observe_email, in Command::output
CalendarCall == "gog calendar events"
EmailCall == "gog gmail search"
Waiting == ret.op \in {CalendarCall, EmailCall}

\* tick of calendar_interval with the flag set: gog is started
calendar_call ==
    /\ observer = "running" /\ ~Waiting
    /\ capability
    /\ ret' = [op |-> CalendarCall, val |-> "waiting"]
    /\ UNCHANGED <<app, clock, store>>

\* gog returns, and observe_calendar goes on to its end
calendar_return ==
    /\ ret.op = CalendarCall
    /\ \E outcome \in {"ok", "fetch_error"}, f \in CalendarFeeds :
          observe_calendar(outcome, f)

\* tick of email_interval with the flag set: gog is started
email_call ==
    /\ observer = "running" /\ ~Waiting
    /\ capability
    /\ ret' = [op |-> EmailCall, val |-> "waiting"]
    /\ UNCHANGED <<app, clock, store>>

\* gog returns, and observe_email goes on to its end
email_return ==
    /\ ret.op = EmailCall
    /\ \E outcome \in {"ok", "fetch_error"}, f \in EmailFeeds :
          observe_email(outcome, f, Self)

\* tick of suggestion_interval: select! polls it only between two bodies
suggestion_poll == ~Waiting /\ suggestion_tick

\* the external call may take any time, or never return: no fairness
NextObserver ==
    \/ calendar_call
    \/ calendar_return
    \/ email_call
    \/ email_return
    \/ suggestion_poll

SpecObserver == Init /\ [][NextObserver]_vars

----------------------------------------------------------------------------
(* Properties *)

GenerateStep == \E failed \in FailSets : generate_suggestions(failed)

Pending(i) == suggestions[i].status = "pending"

\* C1: no two pending suggestion rows have the same type and the same
\* contact_email, in every reachable state.
C1_DedupInvariant ==
    \A i, j \in DOMAIN suggestions :
        (/\ i /= j
         /\ Pending(i) /\ Pending(j)
         /\ suggestions[i].type = suggestions[j].type)
        => suggestions[i].contact_email /= suggestions[j].contact_email

\* a run whose respond detector returned two candidates for a@x.com (both
\* messages were unanswered and no respond row was pending) inserted the
\* reachout row and one respond row
C1_Witness ==
    /\ ret.op = "generate_suggestions" /\ ret.val = 2
    /\ Cardinality({m \in DOMAIN email_observations :
                      email_observations[m].is_inbound = 1
                      /\ email_observations[m].from_email = "a@x.com"}) >= 2
    /\ \E i, j \in DOMAIN suggestions :
          /\ suggestions[i].type = "respond" /\ Pending(i)
          /\ suggestions[j].type = "reachout" /\ Pending(j)
          /\ suggestions[i].contact_email = "a@x.com"
          /\ suggestions[j].contact_email = "a@x.com"

\* C2: a generate_suggestions run inserts no row of a type whose autonomy
\* setting is at observe.  Whatever setting a suggestion type belongs to, its
\* level is observe when every row of autonomy_settings is at observe: such a
\* run must insert no row at all.
C2_ObserveGating ==
    [][(GenerateStep /\ \A a \in DOMAIN autonomy_settings :
                            autonomy_settings[a].level = "observe")
       => DOMAIN suggestions' \subseteq DOMAIN suggestions]_vars

\* C3: accept_suggestion (dismiss_suggestion) on an existing suggestion adds
\* exactly 1 to total_accepted (total_dismissed) of one activity type and
\* leaves every other counter as it was.
CountersAfter(field, other) ==
    \E a \in DOMAIN autonomy_settings :
        /\ autonomy_settings'[a][field] = autonomy_settings[a][field] + 1
        /\ autonomy_settings'[a][other] = autonomy_settings[a][other]
        /\ \A b \in DOMAIN autonomy_settings \ {a} :
              /\ autonomy_settings'[b].total_accepted = autonomy_settings[b].total_accepted
              /\ autonomy_settings'[b].total_dismissed = autonomy_settings[b].total_dismissed

C3_CountersIncrement ==
    [][\A id \in DOMAIN suggestions :
          /\ accept_suggestion(id) => CountersAfter("total_accepted", "total_dismissed")
          /\ dismiss_suggestion(id) => CountersAfter("total_dismissed", "total_accepted")]_vars

\* C4: check_promotion_eligibility returns a setting exactly when some
\* activity type has total_accepted >= 10, total_dismissed = 0 and a level
\* other than act, and the setting it returns is a stored row with these
\* three properties.
C4_PromotionEligibility ==
    ret.op = "check_promotion_eligibility" =>
        /\ (ret.val /= {}) <=>
              (\E a \in DOMAIN autonomy_settings :
                  /\ autonomy_settings[a].total_accepted >= 10
                  /\ autonomy_settings[a].total_dismissed = 0
                  /\ autonomy_settings[a].level /= "act")
        /\ \A r \in ret.val :
              /\ r.activity_type \in DOMAIN autonomy_settings
              /\ r.setting = autonomy_settings[r.activity_type]
              /\ r.setting.total_accepted >= 10
              /\ r.setting.total_dismissed = 0
              /\ r.setting.level /= "act"

\* a type with accepted = 10 and dismissed = 0 is returned while a type at
\* act with 10 accepts, a type with one dismissal and a type with 9 accepts
\* are stored
C4_Witness ==
    /\ ret.op = "check_promotion_eligibility"
    /\ \E r \in ret.val : r.setting.total_accepted = 10
    /\ \E b \in DOMAIN autonomy_settings :
          /\ autonomy_settings[b].level = "act"
          /\ autonomy_settings[b].total_accepted >= 10
          /\ autonomy_settings[b].total_dismissed = 0
    /\ \E b \in DOMAIN autonomy_settings :
          /\ autonomy_settings[b].level /= "act"
          /\ autonomy_settings[b].total_accepted = 10
          /\ autonomy_settings[b].total_dismissed = 1
    /\ \E b \in DOMAIN autonomy_settings :
          /\ autonomy_settings[b].level /= "act"
          /\ autonomy_settings[b].total_accepted = 9
          /\ autonomy_settings[b].total_dismissed = 0

Rank(level) == CHOOSE i \in 1..Len(valid_levels) : valid_levels[i] = level

\* C5 as stated: no step lowers the level of an activity type in the order
\* observe < suggest < draft < act.
C5_LevelNeverBackward ==
    [][\A a \in DOMAIN autonomy_settings :
          Rank(autonomy_settings'[a].level) >= Rank(autonomy_settings[a].level)]_vars

\* C5 as amended: the level of an activity type changes only in a
\* set_autonomy_level call naming that type with a valid level, and becomes
\* the level passed (which may be a lower one).
C5_LevelChangesOnlyBySet ==
    [][\A a \in DOMAIN autonomy_settings :
          autonomy_settings'[a].level /= autonomy_settings[a].level
          => \E l \in Levels :
                /\ set_autonomy_level(a, l)
                /\ autonomy_settings'[a].level = l]_vars

\* scheduling, seeded at suggest, has been set back to observe
C5_Witness ==
    /\ ret = [op |-> "set_autonomy_level", val |-> "ok"]
    /\ autonomy_settings["scheduling"].level = "observe"
    /\ autonomy_settings["scheduling"].promoted_at /= NONE

\* C6: outside clear_all_data no counter of any activity type decreases;
\* clear_all_data sets both counters of every type to 0 and keeps every level.
C6_CountersMonotone ==
    [][/\ clear_all_data =>
            \A a \in DOMAIN autonomy_settings :
                /\ autonomy_settings'[a].total_accepted = 0
                /\ autonomy_settings'[a].total_dismissed = 0
                /\ autonomy_settings'[a].level = autonomy_settings[a].level
       /\ ~clear_all_data =>
            \A a \in DOMAIN autonomy_settings :
                /\ autonomy_settings'[a].total_accepted >= autonomy_settings[a].total_accepted
                /\ autonomy_settings'[a].total_dismissed >= autonomy_settings[a].total_dismissed]_vars

\* clear_all_data has run on a store whose scheduling level had been changed
\* from its seed: the level is kept and the counters are 0
C6_Witness ==
    /\ ret.op = "clear_all_data"
    /\ autonomy_settings["scheduling"].level /= SeedLevel("scheduling")
    /\ \A a \in DOMAIN autonomy_settings :
          /\ autonomy_settings[a].total_accepted = 0
          /\ autonomy_settings[a].total_dismissed = 0

\* C7: clear_all_data leaves contacts, calendar_events, email_observations
\* and suggestions empty and keeps the rows of autonomy_settings and the
\* level of each.
C7_ClearAllData ==
    [][clear_all_data =>
          /\ contacts' = EmptyTable /\ calendar_events' = EmptyTable
          /\ email_observations' = EmptyTable /\ suggestions' = EmptyTable
          /\ DOMAIN autonomy_settings' = DOMAIN autonomy_settings
          /\ \A a \in DOMAIN autonomy_settings :
                autonomy_settings'[a].level = autonomy_settings[a].level]_vars

\* the four data tables are empty right after clear_all_data, and the
\* settings still hold a level and a promoted_at that a call had set
C7_Witness ==
    /\ ret.op = "clear_all_data"
    /\ contacts = EmptyTable /\ calendar_events = EmptyTable
    /\ email_observations = EmptyTable /\ suggestions = EmptyTable
    /\ DOMAIN autonomy_settings = ActivityTypes
    /\ autonomy_settings["scheduling"].promoted_at /= NONE

\* C8: check_promotion_eligibility changes nothing in the store;
\* set_autonomy_level(a, l) changes at most level and promoted_at of the row
\* a: every counter, every other row and every other table stay as they were.
C8_SetLevelFrame ==
    [][/\ check_promotion_eligibility => UNCHANGED <<clock, store>>
       /\ \A a \in SetTypes, l \in SetLevels :
             set_autonomy_level(a, l) =>
                /\ UNCHANGED <<clock, contacts, calendar_events,
                               email_observations, suggestions>>
                /\ DOMAIN autonomy_settings' = DOMAIN autonomy_settings
                /\ \A b \in DOMAIN autonomy_settings :
                      /\ autonomy_settings'[b].total_accepted = autonomy_settings[b].total_accepted
                      /\ autonomy_settings'[b].total_dismissed = autonomy_settings[b].total_dismissed
                      /\ b /= a => autonomy_settings'[b] = autonomy_settings[b]]_vars

\* a level has just been set while a suggestion is pending
C8_Witness ==
    /\ ret = [op |-> "set_autonomy_level", val |-> "ok"]
    /\ autonomy_settings["scheduling"].promoted_at = now_iso
    /\ \E i \in DOMAIN suggestions : Pending(i)

\* C9: after a generate_suggestions run no pending suggestion has an
\* expires_at earlier than the time of the run.
C9_SweepEveryRun ==
    [][GenerateStep =>
          \A i \in DOMAIN suggestions' :
              ~(/\ suggestions'[i].status = "pending"
                /\ suggestions'[i].expires_at /= NONE
                /\ InstantOf(suggestions'[i].expires_at) < clock)]_vars

\* C10: a generate_suggestions run deletes every dismissed suggestion acted
\* on more than 30 days before it and keeps every dismissed suggestion acted
\* on less than 30 days before it.
C10_GarbageCollection ==
    [][GenerateStep =>
          \A i \in DOMAIN suggestions :
              (suggestions[i].status = "dismissed" /\ suggestions[i].acted_at /= NONE) =>
                 /\ clock - InstantOf(suggestions[i].acted_at) > 30 * TicksPerDay
                       => i \notin DOMAIN suggestions'
                 /\ clock - InstantOf(suggestions[i].acted_at) < 30 * TicksPerDay
                       => (i \in DOMAIN suggestions' /\ suggestions'[i] = suggestions[i])]_vars

Expired(i) == i \in DOMAIN suggestions /\ suggestions[i].status = "expired"

\* C11: a suggestion in status expired does not stay stored forever: when
\* time goes on for more than 30 days after it was found expired (here at
\* least 40 days remain before the last day of the run, so that the clock
\* ends 31 days or more after), a generate_suggestions run deletes it.
C11_ExpiredEventuallyDeleted ==
    \A i \in SuggestionIds :
        (Expired(i) /\ clock + 40 * TicksPerDay <= (StartDay + MaxDays) * TicksPerDay)
            ~> ~Expired(i)

\* C12: a stored suggestion whose status is accepted, dismissed or expired
\* keeps that status in every step that keeps the row, and no step gives a
\* stored row the status pending again.
C12_StatusOnlyForward ==
    [][\A i \in DOMAIN suggestions \cap DOMAIN suggestions' :
          ~Pending(i) => suggestions'[i].status = suggestions[i].status]_vars

\* the rows of the store get_suggestions may list at the current time
Listable ==
    {i \in DOMAIN suggestions :
        /\ Pending(i)
        /\ \/ suggestions[i].expires_at = NONE
           \/ InstantOf(suggestions[i].expires_at) > clock}

\* C13: what get_suggestions returns are stored suggestions, each pending
\* and with no expires_at or one later than the current time; there are at
\* most 20 of them, each listed once, in the order of confidence descending
\* and, at equal confidence, created_at descending.
C13_GetSuggestions ==
    ret.op = "get_suggestions" =>
        /\ Len(ret.val) <= 20
        /\ \A j \in DOMAIN ret.val :
              /\ ret.val[j].id \in Listable
              /\ ret.val[j].suggestion = suggestions[ret.val[j].id]
        /\ \A j, k \in DOMAIN ret.val :
              j < k =>
                /\ ret.val[j].id /= ret.val[k].id
                /\ \/ ret.val[j].suggestion.confidence > ret.val[k].suggestion.confidence
                   \/ /\ ret.val[j].suggestion.confidence = ret.val[k].suggestion.confidence
                      /\ ret.val[j].suggestion.created_at >= ret.val[k].suggestion.created_at

\* 20 suggestions are returned while more than 20 are listable, and a
\* pending suggestion that no sweep has marked is stored with its expires_at
\* in the past
C13_Witness ==
    /\ ret.op = "get_suggestions"
    /\ Len(ret.val) = 20
    /\ Cardinality(Listable) > 20
    /\ \E i \in DOMAIN suggestions :
          Pending(i) /\ suggestions[i].expires_at /= NONE
          /\ InstantOf(suggestions[i].expires_at) <= clock

\* the least latency, in minutes, from observation m to a later outbound
\* observation of its thread now stored
LeastLatency(m) ==
    Min({MinutesBetween(email_observations[m].timestamp, email_observations[k].timestamp) :
            k \in LaterOutbound(email_observations, m)})

\* C14: right after detect_reply_patterns has run (at the end of an email
\* cycle), an inbound observation has replied = 1 exactly when an outbound
\* observation of the same thread with a strictly later timestamp is
\* stored, and then its reply_time_mins is the least difference to such an
\* observation.
C14_ReplyDetection ==
    ret.op = "observe_email" =>
        \A m \in DOMAIN email_observations :
            email_observations[m].is_inbound = 1 =>
                IF LaterOutbound(email_observations, m) /= {}
                THEN /\ email_observations[m].replied = 1
                     /\ email_observations[m].reply_time_mins = LeastLatency(m)
                ELSE email_observations[m].replied = 0

\* C15: after an email cycle has completed, every observation with
\* replied = 1 has a reply_time_mins that is not negative and is the least
\* latency to a later outbound observation stored for its thread, in whatever
\* order the cycles delivered the messages.
C15_LatencyIsMinimum ==
    ret.op = "observe_email" =>
        \A m \in DOMAIN email_observations :
            email_observations[m].replied = 1 =>
                /\ email_observations[m].reply_time_mins /= NONE
                /\ email_observations[m].reply_time_mins >= 0
                /\ LaterOutbound(email_observations, m) /= {}
                /\ email_observations[m].reply_time_mins = LeastLatency(m)

\* C16: an email cycle that delivers nothing and runs right after an email
\* cycle only runs detect_reply_patterns again on the unchanged table: it
\* changes no replied flag, no reply_time_mins and no contact's
\* avg_response_time_mins.
C16_DetectIdempotent ==
    [][(/\ ret.op = "observe_email"
        /\ \E whoami \in {Self, NULL} : observe_email("ok", <<>>, whoami))
       => /\ DOMAIN email_observations' = DOMAIN email_observations
          /\ \A m \in DOMAIN email_observations :
                /\ email_observations'[m].replied = email_observations[m].replied
                /\ email_observations'[m].reply_time_mins = email_observations[m].reply_time_mins
          /\ DOMAIN contacts' = DOMAIN contacts
          /\ \A e \in DOMAIN contacts :
                contacts'[e].avg_response_time_mins = contacts[e].avg_response_time_mins]_vars

\* the run has been repeated on a table with a replied observation, its
\* latency recorded, and the sender's average computed from it
C16_Witness ==
    /\ ret = [op |-> "observe_email", val |-> 0]
    /\ 11 \in DOMAIN email_observations
    /\ email_observations[11].replied = 1
    /\ email_observations[11].reply_time_mins > 0
    /\ contacts["a@x.com"].avg_response_time_mins /= NoAverage

\* C17: a stored email observation keeps its thread_id, from_email,
\* to_emails, timestamp, is_inbound and labels in every step that keeps the
\* row (only replied and reply_time_mins may change), also when a cycle
\* delivers its message id again; an email cycle returns the number of rows
\* it added, which counts no message id already stored.
C17_InsertOnce ==
    [][/\ \A m \in DOMAIN email_observations \cap DOMAIN email_observations' :
             /\ email_observations'[m].thread_id = email_observations[m].thread_id
             /\ email_observations'[m].from_email = email_observations[m].from_email
             /\ email_observations'[m].to_emails = email_observations[m].to_emails
             /\ email_observations'[m].timestamp = email_observations[m].timestamp
             /\ email_observations'[m].is_inbound = email_observations[m].is_inbound
             /\ email_observations'[m].sent = email_observations[m].sent
       /\ ret'.op = "observe_email" =>
             /\ DOMAIN email_observations \subseteq DOMAIN email_observations'
             /\ ret' /= ret =>
                   ret'.val = Cardinality(DOMAIN email_observations'
                                            \ DOMAIN email_observations)]_vars

\* message 11 was stored as inbound; a later cycle delivered it again
\* (its sender was touched twice) and added no row
C17_Witness ==
    /\ ret = [op |-> "observe_email", val |-> 0]
    /\ DOMAIN email_observations = {11}
    /\ email_observations[11].is_inbound = 1
    /\ contacts["a@x.com"].interaction_count = 2

\* occurrences of the address e among the attendees and organizers of the
\* events of a feed that carry an id
EventOccurrences(f, e) ==
    Cardinality({<<i, j>> \in (DOMAIN f) \X (1..2) :
                    /\ f[i].id /= NONE
                    /\ j \in DOMAIN f[i].attendees
                    /\ f[i].attendees[j].email = e})
      + Cardinality({i \in DOMAIN f : f[i].id /= NONE /\ f[i].organizer = e})

\* occurrences of the address e as sender or recipient of the messages of a
\* feed that carry a thread id and a message id
MessageOccurrences(f, e) ==
    Cardinality({i \in DOMAIN f :
                    f[i].thread_id /= NONE /\ f[i].id /= NONE /\ f[i].from = e})
      + Cardinality({<<i, j>> \in (DOMAIN f) \X (1..2) :
                    /\ f[i].thread_id /= NONE /\ f[i].id /= NONE
                    /\ j \in DOMAIN f[i].to
                    /\ f[i].to[j] = e})

CountOf(table, e) == IF e \in DOMAIN table THEN table[e].interaction_count ELSE 0

\* C18: a cycle adds to the interaction_count of every address exactly the
\* number of its occurrences in the feed (a contact not yet stored counting
\* from 0), whether the event or message delivered was new or already
\* stored; every event id delivered is stored once; no step lowers the
\* interaction_count of a contact it keeps.
C18_TouchPerOccurrence ==
    [][/\ \A f \in IngestFeeds :
             observe_calendar("ok", f) =>
                /\ \A e \in DOMAIN contacts' :
                      CountOf(contacts', e) = CountOf(contacts, e) + EventOccurrences(f, e)
                /\ DOMAIN calendar_events' =
                      DOMAIN calendar_events \cup ({f[i].id : i \in DOMAIN f} \ {NONE})
       /\ \A f \in ReplyFeeds, whoami \in {Self, NULL} :
             observe_email("ok", f, whoami) =>
                \A e \in DOMAIN contacts' :
                    CountOf(contacts', e) = CountOf(contacts, e) + MessageOccurrences(f, e)
       /\ \A e \in DOMAIN contacts \cap DOMAIN contacts' :
             contacts'[e].interaction_count >= contacts[e].interaction_count]_vars

\* event 22 was delivered twice and message 11 was delivered twice: one
\* row each, two touches of b@x.com and two of the account's own address
C18_Witness ==
    /\ DOMAIN calendar_events = {22}
    /\ contacts["b@x.com"].interaction_count = 2
    /\ DOMAIN email_observations = {11}
    /\ contacts[Self].interaction_count = 2

\* the channel of the cycle that made the step
SourceChannel == IF ret'.op = "observe_calendar" THEN "calendar" ELSE "email"

\* C19: a step that touches a contact whose stored interaction_count is at
\* most 5 (or that creates the contact) sets preferred_channel to the
\* channel of the cycle, and no step changes the preferred_channel of a
\* contact whose stored interaction_count exceeds 5.
C19_ChannelSticky ==
    [][\A e \in DOMAIN contacts' :
          IF e \notin DOMAIN contacts
          THEN contacts'[e].preferred_channel = SourceChannel
          ELSE /\ (contacts[e].interaction_count <= 5
                    /\ contacts'[e].interaction_count > contacts[e].interaction_count)
                  => contacts'[e].preferred_channel = SourceChannel
               /\ contacts[e].interaction_count > 5
                  => contacts'[e].preferred_channel = contacts[e].preferred_channel]_vars

\* the contact counted 6 interactions with the channel email when a
\* calendar cycle touched it: the count is 7 and the channel still email
C19_Witness ==
    /\ ret.op = "observe_calendar"
    /\ LongContact \in DOMAIN contacts
    /\ contacts[LongContact].interaction_count = 7
    /\ contacts[LongContact].preferred_channel = "email"
    /\ DOMAIN calendar_events = {32}

\* C20: a tick that finds the flag disabled changes nothing in the store,
\* and whenever the flag is enabled, also after having been disabled when
\* the application started, the observer's timers are running, so that the
\* next tick of each performs its cycle without a restart.
C20_FlagRereadEveryTick ==
    [][/\ (~capability /\ (calendar_tick \/ email_tick \/ suggestion_tick))
            => UNCHANGED <<store, ret>>
       /\ capability' => observer' = "running"]_vars

\* C21: while an ingestion cycle waits for its external call, the timers of
\* the other cycles can still run their bodies: the suggestion timer while
\* either ingestion waits, the email timer while the calendar ingestion
\* waits, and the calendar timer while the email ingestion waits.
C21_WaitingBlocksNoTimer ==
    /\ Waiting => ENABLED suggestion_poll
    /\ ret.op = CalendarCall => ENABLED email_call
    /\ ret.op = EmailCall => ENABLED calendar_call

\* C22: in a generate_suggestions run in which some of the four detectors
\* fail, every candidate of a detector that did not fail is processed for
\* insertion (after the run a pending suggestion of its type exists for its
\* contact, the levels here never being observe), the expiry sweep has run
\* (no pending row has an expires_at earlier than the run) and the garbage
\* collection has run (no dismissed row acted on more than 30 days before
\* the run is left).
C22_FailedDetectorsSkippedOnly ==
    [][\A failed \in DetectorFailures \ {{}} :
          generate_suggestions(failed) =>
             /\ \A d \in Detectors \ failed : \A q \in DetectorResult(d) :
                   \A j \in DOMAIN q :
                      AutonomyLevelFor(q[j].type) /= "observe" =>
                         \E i \in DOMAIN suggestions' :
                            /\ suggestions'[i].type = q[j].type
                            /\ suggestions'[i].contact_email = q[j].contact_email
                            /\ suggestions'[i].status = "pending"
             /\ \A i \in DOMAIN suggestions' :
                   ~(/\ suggestions'[i].status = "pending"
                     /\ suggestions'[i].expires_at /= NONE
                     /\ InstantOf(suggestions'[i].expires_at) < clock)
             /\ \A i \in DOMAIN suggestions :
                   (/\ suggestions[i].status = "dismissed"
                    /\ suggestions[i].acted_at /= NONE
                    /\ clock - InstantOf(suggestions[i].acted_at) > 30 * TicksPerDay)
                      => i \notin DOMAIN suggestions']_vars

\* the store after the calendar cycles, then the email cycles, each in the
\* order of the ids
RECURSIVE CalendarFirst(_, _, _, _)
CalendarFirst(events, messages, obs, cts) ==
    IF events /= {}
    THEN LET i == Min(events)
         IN CalendarFirst(events \ {i}, messages, obs,
                          ProcessEvents(<<OrderEvent(i)>>, EmptyTable, cts, 0).cts)
    ELSE IF messages /= {}
    THEN LET i == Min(messages)
             done == ProcessMessages(<<OrderMessage(i)>>, obs, cts, 0, Self)
             after == detect_reply_patterns(done.obs, done.cts)
         IN CalendarFirst(events, messages \ {i}, after.obs, after.cts)
    ELSE [obs |-> obs, cts |-> cts]

\* what the claim compares: the contact model and the reply fields
ContactModel(obs, cts) ==
    [contacts |-> [e \in DOMAIN cts |->
                      <<cts[e].interaction_count, cts[e].name,
                        cts[e].preferred_channel, cts[e].avg_response_time_mins>>],
     replies |-> [m \in DOMAIN obs |-> <<obs[m].replied, obs[m].reply_time_mins>>]]

\* C23: once every delivery of the fixed set has been ingested, the contact
\* model (interaction count, name, preferred channel, average reply latency)
\* and the replied and reply latency fields of the observations are those
\* of the run that ingests the calendar deliveries first and the email
\* deliveries after them, whatever the order of the cycles was.
C23_OrderIndependent ==
    (OrderMessages \subseteq DOMAIN email_observations
        /\ OrderEvents \subseteq DOMAIN calendar_events)
       => ContactModel(email_observations, contacts)
            = ContactModel(CalendarFirst(OrderEvents, OrderMessages,
                                         EmptyTable, EmptyTable).obs,
                           CalendarFirst(OrderEvents, OrderMessages,
                                         EmptyTable, EmptyTable).cts)

\* the unreplied inbound messages of a contact within the last 7 days
UnrepliedRecent(e) ==
    {m \in DOMAIN email_observations :
        /\ email_observations[m].from_email = e
        /\ email_observations[m].is_inbound = 1
        /\ email_observations[m].replied = 0
        /\ InstantOf(email_observations[m].timestamp) >= clock - 7 * TicksPerDay}

ReachoutRows(table, e) ==
    {i \in DOMAIN table : table[i].type = "reachout" /\ table[i].contact_email = e}

PendingReachout(e) ==
    \E i \in ReachoutRows(suggestions, e) : suggestions[i].status = "pending"

ReachoutDue(e) == Cardinality(UnrepliedRecent(e)) >= 2 /\ ~PendingReachout(e)

ReachoutInserted(e) ==
    \E i \in ReachoutRows(suggestions', e) \ DOMAIN suggestions :
        suggestions'[i].status = "pending"

\* C24 as stated: a generate_suggestions run inserts a pending reachout
\* suggestion for every contact with at least 2 unreplied inbound messages
\* within the last 7 days and no pending reachout suggestion, and inserts
\* no reachout suggestion for a contact that has a pending one.
C24_ReachoutInserted ==
    [][generate_suggestions({}) =>
          \A e \in DOMAIN contacts :
             /\ ReachoutDue(e) => ReachoutInserted(e)
             /\ PendingReachout(e) =>
                   ReachoutRows(suggestions', e) = ReachoutRows(suggestions, e)]_vars

\* C24 amended: the run inserts the pending reachout suggestion for such a
\* contact when fewer than 5 other such contacts have as many unreplied
\* messages or more (the detector returns the 5 contacts with the most), and
\* it inserts no reachout suggestion for a contact that has a pending one.
C24_ReachoutInsertedAmongFive ==
    [][generate_suggestions({}) =>
          \A e \in DOMAIN contacts :
             /\ (/\ ReachoutDue(e)
                 /\ Cardinality({o \in DOMAIN contacts \ {e} :
                        /\ ReachoutDue(o)
                        /\ Cardinality(UnrepliedRecent(o))
                              >= Cardinality(UnrepliedRecent(e))}) < 5)
                   => ReachoutInserted(e)
             /\ PendingReachout(e) =>
                   ReachoutRows(suggestions', e) = ReachoutRows(suggestions, e)]_vars

\* a second run has inserted nothing while the suggestion of the first run
\* is pending for a contact with 2 unreplied messages or more
C24_Witness ==
    /\ ret = [op |-> "generate_suggestions", val |-> 0]
    /\ \E e \in DOMAIN contacts :
          /\ Cardinality(UnrepliedRecent(e)) >= 2
          /\ PendingReachout(e)
          /\ Cardinality(ReachoutRows(suggestions, e)) = 1

\* the instants of the interactions with a contact: here each interaction
\* is the fetch of a message written at that instant
InteractionTimes(e) ==
    {<<m, InstantOf(email_observations[m].timestamp)>> :
        m \in {x \in DOMAIN email_observations : email_observations[x].from_email = e}}

\* C25: detect_frequent_contacts proposes a catch_up suggestion for a
\* contact exactly when the contact has at least 3 interactions between 14
\* and 5 days ago, none in the last 5 days and no pending catch_up
\* suggestion; interactions older than 14 days do not count.
C25_CatchUpWindow ==
    \A e \in DOMAIN contacts :
        (\E q \in detect_frequent_contacts : \E j \in DOMAIN q : q[j].contact_email = e)
          <=> /\ Cardinality({t \in InteractionTimes(e) :
                     /\ t[2] >= clock - 14 * TicksPerDay
                     /\ t[2] <= clock - 5 * TicksPerDay}) >= 3
              /\ \A t \in InteractionTimes(e) : t[2] <= clock - 5 * TicksPerDay
              /\ e \notin PendingContacts("catch_up")

\* the stored events that list e as attendee and start from instant lo to
\* instant hi
MeetingsWith(e, lo, hi) ==
    {ev \in DOMAIN calendar_events :
        /\ \E j \in DOMAIN calendar_events[ev].attendees :
              calendar_events[ev].attendees[j] = e
        /\ InstantOf(calendar_events[ev].start_time) >= lo
        /\ InstantOf(calendar_events[ev].start_time) <= hi}

\* C26: detect_meeting_patterns proposes a schedule_meeting suggestion for
\* an attendee exactly when the attendee is listed in at least 3 events that
\* start within the trailing 30 days up to now, in no event that starts
\* within the next 14 days, and has no pending schedule_meeting suggestion.
C26_MeetingLapse ==
    \A e \in DOMAIN contacts :
        (\E q \in detect_meeting_patterns : \E j \in DOMAIN q : q[j].contact_email = e)
          <=> /\ Cardinality(MeetingsWith(e, clock - 30 * TicksPerDay, clock)) >= 3
              /\ MeetingsWith(e, clock + 1, clock + 14 * TicksPerDay) = {}
              /\ e \notin PendingContacts("schedule_meeting")

\* C27: what a detector returns are at most 5 candidates, each of the type
\* of the detector and of status pending, and none for a contact that has a
\* pending suggestion of that type in the store the detector reads.
C27_DetectorResults ==
    \A d \in Detectors : \A q \in DetectorResult(d) :
        /\ Len(q) <= 5
        /\ \A j \in DOMAIN q :
              /\ q[j].type = d
              /\ q[j].status = "pending"
              /\ ~\E i \in DOMAIN suggestions :
                     /\ suggestions[i].type = d
                     /\ suggestions[i].status = "pending"
                     /\ suggestions[i].contact_email = q[j].contact_email

\* a run has just inserted the 5 candidates of a detector that had six
\* contacts to propose, and the detector now returns the sixth only
C27_Witness ==
    /\ ret.op = "generate_suggestions"
    /\ \E d \in Detectors :
          /\ Cardinality(PendingContacts(d)) = 5
          /\ \E q \in DetectorResult(d) :
                Len(q) = 1 /\ q[1].contact_email \notin PendingContacts(d)

\* the result of the last call is an error
ReportedError(r) == ToString(r.val) = ToString("err")

\* C28: a cycle whose whole feed is malformed JSON, of the calendar or of
\* the email feed, reports an error and leaves the store as it was: no step
\* that returns a count is a cycle on a malformed feed, and a cycle on a
\* malformed feed that returns an error changes nothing in the store.
C28_MalformedFeedAborts ==
    [][IF ReportedError(ret')
       THEN observe_calendar("malformed", <<>>) => UNCHANGED store
       ELSE ~observe_email("malformed", <<>>, Self)]_vars

\* C29: a stored suggestion has an acted_at exactly when its status is
\* accepted or dismissed; a pending or expired row has none.
C29_ActedAtIffActedOn ==
    \A i \in DOMAIN suggestions :
        suggestions[i].acted_at /= NONE
            <=> suggestions[i].status \in {"accepted", "dismissed"}

\* the sweep has expired a row and the user has accepted or dismissed
\* another, while a third one is pending
C29_Witness ==
    /\ \E i \in DOMAIN suggestions : Expired(i) /\ suggestions[i].acted_at = NONE
    /\ \E i \in DOMAIN suggestions : Pending(i) /\ suggestions[i].acted_at = NONE
    /\ \E i \in DOMAIN suggestions :
          /\ suggestions[i].status \in {"accepted", "dismissed"}
          /\ suggestions[i].acted_at = now_iso

\* C30: in every state a replied observation is inbound, an observation
\* with a reply latency is replied, and an observation of undetermined
\* direction is not replied; in every step an observation that stays stored
\* keeps its direction and, once replied, stays replied, and only
\* clear_all_data removes observations.
C30_RepliedFlag ==
    /\ [](\A m \in DOMAIN email_observations :
            /\ email_observations[m].replied = 1 => email_observations[m].is_inbound = 1
            /\ email_observations[m].reply_time_mins /= NONE
                  => email_observations[m].replied = 1
            /\ email_observations[m].is_inbound = NONE
                  => email_observations[m].replied = 0)
    /\ [][/\ \A m \in DOMAIN email_observations \cap DOMAIN email_observations' :
                /\ email_observations'[m].is_inbound = email_observations[m].is_inbound
                /\ email_observations[m].replied = 1 => email_observations'[m].replied = 1
          /\ DOMAIN email_observations \subseteq DOMAIN email_observations'
                \/ ret'.op = "clear_all_data"]_vars

\* message 11 is replied with its latency, while another message of the
\* thread, stored when no self address was known, has no direction and is
\* not replied although a later outbound message of the thread is stored
C30_Witness ==
    /\ ret.op = "observe_email"
    /\ 11 \in DOMAIN email_observations
    /\ email_observations[11].replied = 1
    /\ email_observations[11].reply_time_mins /= NONE
    /\ \E m \in DOMAIN email_observations :
          /\ email_observations[m].is_inbound = NONE
          /\ email_observations[m].replied = 0
          /\ LaterOutbound(email_observations, m) /= {}

====
